---- MODULE Spec2Model ----
(***************************************************************************)
(* BankingBot: the agent turn-execution and event-streaming pipeline       *)
(* (src/src/app/agents/banking_agent.py), the SQL tool layer               *)
(* (src/src/app/tools/sql_retrieval_tool.py) and the conversation-memory   *)
(* key, the streaming workflow with its judge stage                        *)
(* (src/src/app/workflows/banking_workflow.py, evaluation/llm_judge.py,    *)
(* agents/response_judge.py), the chat service that stores the turn        *)
(* (services/chat_service.py) behind the streaming endpoint                *)
(* (api/endpoints/chat.py), and the accessor of the shared agent.          *)
(* Strings are modelled as sequences of one-character strings so that      *)
(* lower(), slicing and f-string concatenation are computed, not assumed.  *)
(***************************************************************************)
EXTENDS Integers, Sequences, FiniteSets, TLC

VARIABLES
    current_step,            \* BankingAgent.current_step of the shared instance
    final_answer_emitted,    \* BankingAgent._final_answer_emitted of the shared instance
    pc,                      \* per turn: position of the stream_response generator
    out,                     \* per turn: the events yielded so far
    eng,                     \* per turn: state of the astream_events run
    ctx,                     \* per turn: [user_id, thread_id] of the request
    lastCall,                \* tool layer: the last tool call and its result
    nCalls,                  \* tool layer: number of tool calls made
    dbOps,                   \* tool layer: number of data-store operations performed
    memory,                  \* checkpointer: set of [key, owner] entries written
    resolved,                \* owners of the entries the last history lookup resolved
    wf,                      \* per turn: position and locals of stream_with_evaluation
    judgeCall,               \* judge: the last evaluate_response call and its result
    svc,                     \* per turn: position and locals of ChatService.stream_message
    txCall,                  \* get_transactions: the last query and its result
    cardCall,                \* get_credit_card_info: the last stored card and its result
    tagCall,                 \* the last message built for the reasoning loop
    agent_instance,          \* the module global _agent_instance: 0 is None
    agentCalls               \* the calls made for an agent, with what each returned

vars == <<current_step, final_answer_emitted, pc, out, eng, ctx,
          lastCall, nCalls, dbOps, memory, resolved,
          wf, judgeCall, svc, txCall, cardCall, tagCall,
          agent_instance, agentCalls>>

turnVars == <<current_step, final_answer_emitted, pc, out, eng, ctx>>
toolVars == <<lastCall, nCalls, dbOps>>
keyVars  == <<memory, resolved>>
evalVars == <<wf, judgeCall, svc>>
dataVars == <<txCall, cardCall, tagCall, agent_instance, agentCalls>>
cacheVars == <<agent_instance, agentCalls>>

----------------------------------------------------------------------------
(* Bounds *)

MaxEvents      == 4    \* raw execution events delivered to the first turn
MaxOtherEvents == 1    \* raw execution events delivered to the turn run next to it
MaxTurnEvents  == 7    \* raw execution events delivered to a turn that runs alone
MaxToolCalls   == 2    \* tool calls requested by one model response
RecursionLimit == 3    \* super-steps the graph run performs before it raises
MaxTokens      == 1    \* tokens streamed by one model call of the looping model
MaxCalls       == 2    \* tool calls made in the tool-layer specification
MaxWrites      == 2    \* memory entries written in the key specification
MaxIdLen       == 2    \* length of user and thread ids in the key specification
MaxJudgeScore  == 6    \* largest score a judge model reply carries
MaxCriteria    == 2    \* criteria scores a judge model reply carries
MaxBalanceEvents == 8  \* raw execution events delivered to the balance turn
LongResult     == 120  \* characters between the braces of the account data a tool returns
ShortResult    == 25   \* characters between the braces of an error envelope a tool returns
MaxRows        == 3    \* transactions matching a get_transactions query
MaxCardLen     == 5    \* length of a stored card number
MaxTagIdLen    == 4    \* length of the user id put into the identity tag
MaxMessageLen  == 2    \* length of the raw message of a request
MaxAgentCalls  == 3    \* calls made for an agent
MaxEarlierEvents == 4  \* raw execution events delivered to the earlier of two successive turns
MaxLaterEvents == 3    \* raw execution events delivered to the later of two successive turns

----------------------------------------------------------------------------
(* Strings *)

UpperLetters == <<"A","B","C","D","E","F","G","H","I","J","K","L","M",
                  "N","O","P","Q","R","S","T","U","V","W","X","Y","Z">>
LowerLetters == <<"a","b","c","d","e","f","g","h","i","j","k","l","m",
                  "n","o","p","q","r","s","t","u","v","w","x","y","z">>

\* str.lower() on one character
LowerChar(c) ==
    IF \E i \in 1..Len(UpperLetters) : UpperLetters[i] = c
    THEN LowerLetters[CHOOSE i \in 1..Len(UpperLetters) : UpperLetters[i] = c]
    ELSE c

\* str.lower()
Lower(s) == [i \in 1..Len(s) |-> LowerChar(s[i])]

\* the strings over alphabet A of length lo..hi
StringsOver(A, lo, hi) == UNION {[1..n -> A] : n \in lo..hi}

----------------------------------------------------------------------------
(* String literals used by the tool layer *)

s_empty == <<>>
s_user_id == <<"u","s","e","r","_","i","d">>
s_your_user_id == <<"y","o","u","r","_","u","s","e","r","_","i","d">>
s_none == <<"n","o","n","e">>
s_null == <<"n","u","l","l">>
s_placeholder == <<"p","l","a","c","e","h","o","l","d","e","r">>
s_example == <<"e","x","a","m","p","l","e">>
s_test_user == <<"t","e","s","t","_","u","s","e","r">>
s_userid == <<"u","s","e","r","i","d">>
s_authenticated_user == <<"a","u","t","h","e","n","t","i","c","a","t","e","d","_","u","s","e","r">>
s_jane_smith == <<"j","a","n","e","_","s","m","i","t","h">>
s_john_doe == <<"j","o","h","n","_","d","o","e">>
s_USER_ID == <<"U","S","E","R","_","I","D">>
s_Null == <<"N","u","l","l">>
s_None == <<"N","o","n","e">>
s_Test_User == <<"T","e","s","t","_","U","s","e","r">>
s_ghost == <<"g","h","o","s","t">>

----------------------------------------------------------------------------
(* Tool layer: src/src/app/tools/sql_retrieval_tool.py *)

\* the list every tool builds before validating user_id
invalid_user_ids ==
    {s_user_id, s_your_user_id, s_none, s_null, s_empty, s_placeholder,
     s_example, s_test_user, s_userid, s_authenticated_user}

\* mutant: the membership test without lower()
IsInvalidUserIdCaseSensitive(user_id) ==
    user_id = s_empty \/ user_id \in invalid_user_ids

\* "if not user_id or user_id.lower() in invalid_user_ids"
IsInvalidUserId(user_id) ==
    user_id = s_empty \/ Lower(user_id) \in invalid_user_ids

\* rows of the User table (User.user_id), each owning accounts, transactions and cards
DbUsers == {s_jane_smith, s_john_doe}

\* what the data store does during one call
DbModes == {"ok", "query_fails", "connect_fails"}

ToolNames == {"get_account_balance", "get_transactions", "get_credit_card_info"}

\* user_id arguments a model may pass
ToolUserIds ==
    {s_empty, s_user_id, s_USER_ID, s_your_user_id, s_none, s_None, s_null, s_Null,
     s_placeholder, s_example, s_test_user, s_Test_User, s_userid,
     s_authenticated_user, s_jane_smith, s_john_doe, s_ghost}

\* a JSON error envelope
ErrorEnvelope(error, has_message, has_suggestion, ops) ==
    [error |-> error, has_message |-> has_message, has_suggestion |-> has_suggestion,
     ops |-> ops, kind |-> "error", owner |-> s_empty]

\* a JSON result holding the rows of user owner
DataResult(owner, ops) ==
    [error |-> "", has_message |-> FALSE, has_suggestion |-> FALSE,
     ops |-> ops, kind |-> "data", owner |-> owner]

\* the call ends with an exception instead of a return value
Raised(error, ops) ==
    [error |-> error, has_message |-> FALSE, has_suggestion |-> FALSE,
     ops |-> ops, kind |-> "raised", owner |-> s_empty]

\* the try/except/finally body shared by the three tools: open the session,
\* look the user up, read the rows of that user
QueryStore(user_id, mode, notFound) ==
    IF mode = "connect_fails"
    THEN Raised("UnboundLocalError", 1)          \* finally: db.close() with db unbound
    ELSE IF mode = "query_fails"
    THEN ErrorEnvelope("Database query failed", FALSE, FALSE, 2)
    ELSE IF user_id \notin DbUsers
    THEN notFound
    ELSE DataResult(user_id, 3)

get_account_balance(user_id, mode) ==
    IF IsInvalidUserId(user_id)
    THEN ErrorEnvelope("Invalid user_id parameter", TRUE, TRUE, 0)
    ELSE QueryStore(user_id, mode, ErrorEnvelope("User not found", TRUE, TRUE, 2))

get_transactions(user_id, mode) ==
    IF IsInvalidUserId(user_id)
    THEN ErrorEnvelope("Invalid user_id parameter", TRUE, TRUE, 0)
    ELSE QueryStore(user_id, mode, ErrorEnvelope("User not found", FALSE, FALSE, 2))

get_credit_card_info(user_id, mode) ==
    IF IsInvalidUserId(user_id)
    THEN ErrorEnvelope("Invalid user_id parameter", TRUE, TRUE, 0)
    ELSE QueryStore(user_id, mode, ErrorEnvelope("User not found", TRUE, TRUE, 2))

NoCall == [tool |-> "none", auth |-> s_empty, user_id |-> s_empty,
           result |-> ErrorEnvelope("", FALSE, FALSE, 0), dbBefore |-> 0, mode |-> "ok"]

\* the agent, running a turn of authenticated user auth, invokes a tool
\* with the arguments the model chose, while the store behaves as mode says
Invoke(tool, auth, user_id, mode, result) ==
    /\ nCalls' = nCalls + 1
    /\ lastCall' = [tool |-> tool, auth |-> auth, user_id |-> user_id,
                    result |-> result, dbBefore |-> dbOps, mode |-> mode]
    /\ dbOps' = dbOps + result.ops
    /\ UNCHANGED <<turnVars, keyVars, evalVars, dataVars>>

CallGetAccountBalance ==
    /\ nCalls < MaxCalls
    /\ \E auth \in DbUsers, user_id \in ToolUserIds, mode \in DbModes :
          Invoke("get_account_balance", auth, user_id, mode,
                 get_account_balance(user_id, mode))

CallGetTransactions ==
    /\ nCalls < MaxCalls
    /\ \E auth \in DbUsers, user_id \in ToolUserIds, mode \in DbModes :
          Invoke("get_transactions", auth, user_id, mode,
                 get_transactions(user_id, mode))

CallGetCreditCardInfo ==
    /\ nCalls < MaxCalls
    /\ \E auth \in DbUsers, user_id \in ToolUserIds, mode \in DbModes :
          Invoke("get_credit_card_info", auth, user_id, mode,
                 get_credit_card_info(user_id, mode))

----------------------------------------------------------------------------
(* Conversation-memory key: banking_agent.py lines 63 and 350 *)

IdAlphabet == {"a", "_"}

\* user ids (UserCreate.user_id, non-empty) and thread ids (ChatMessage.chat_thread_id)
KeyUserIds   == StringsOver(IdAlphabet, 1, MaxIdLen)
KeyThreadIds == StringsOver(IdAlphabet, 1, MaxIdLen)

\* f"{thread_id}_{user_id}"
MemoryKey(thread_id, user_id) == thread_id \o <<"_">> \o user_id

\* a turn of user_id on thread_id checkpoints its messages under its key
WriteMemory ==
    \E user_id \in KeyUserIds, thread_id \in KeyThreadIds :
        /\ Cardinality(memory) < MaxWrites
        /\ memory' = memory \cup {[key |-> MemoryKey(thread_id, user_id),
                                     owner |-> user_id, thread_id |-> thread_id]}
        /\ resolved' = [by |-> s_empty, owners |-> {}]
        /\ UNCHANGED <<turnVars, toolVars, evalVars, dataVars>>

\* get_conversation_history(user_id, thread_id): checkpointer.get under the key
GetConversationHistory ==
    \E user_id \in KeyUserIds, thread_id \in KeyThreadIds :
        /\ memory # {}
        /\ resolved' = [by |-> user_id,
                        owners |-> {m.owner : m \in {x \in memory :
                                        x.key = MemoryKey(thread_id, user_id)}}]
        /\ UNCHANGED <<memory, turnVars, toolVars, evalVars, dataVars>>


----------------------------------------------------------------------------
(* Stream events: the dictionaries stream_response yields *)

Turns == {1, 2}

StreamEvent(type, phase, step, final_answer) ==
    [type |-> type, phase |-> phase, step |-> step, final_answer |-> final_answer,
     tool_name |-> "", content |-> <<>>, tools_used |-> 0]

\* "return None" of _parse_langgraph_event
None == StreamEvent("none", "-", 0, 0)

ReactStep(phase, step)     == StreamEvent("react_step", phase, step, 0)
FinalAnswerStep(step, ans) == StreamEvent("react_step", "FINAL_ANSWER", step, ans)
ReasoningToken(step)       == StreamEvent("reasoning_token", "-", step, 0)
Plain(type)                == StreamEvent(type, "-", 0, 0)

\* ACTION and OBSERVATION steps carry details.tool_name and their content:
\* the ACTION of on_chat_model_end says "Using tool: <name>"
ActionStep(step, tool_name) ==
    [ReactStep("ACTION", step) EXCEPT !.tool_name = tool_name,
                                      !.content = <<"Using tool: ", tool_name>>]
\* the ACTION of on_tool_start (details.execution_start) says "Executing <name>"
ExecutionStartStep(step, tool_name) ==
    [ReactStep("ACTION", step) EXCEPT !.tool_name = tool_name,
                                      !.content = <<"Executing ", tool_name>>]
ObservationStep(step, tool_name, content) ==
    [ReactStep("OBSERVATION", step) EXCEPT !.tool_name = tool_name, !.content = content]

\* the completion summary with its tools_used
CompletionEvent(tools_used) ==
    [Plain("completion") EXCEPT !.tools_used = tools_used]

----------------------------------------------------------------------------
(* Raw execution events: what astream_events(version="v2") delivers *)

\* a message of the graph state: content 0 is empty content, 1.. identify a text
Message(role, content, tool_calls) ==
    [role |-> role, content |-> content, tool_calls |-> tool_calls]

\* what a tool run hands to on_tool_end: the ToolMessage wrapping the string
\* the tool returned (is_message), or that string itself; which of the two
\* is a property of the installed graph library, the same for every run
ToolOutput(is_message, name, text) ==
    [is_message |-> is_message, name |-> name, text |-> text]

NoOutput == ToolOutput(FALSE, "", <<>>)

RawEvent(event, content, tool_calls, has_messages, messages) ==
    [event |-> event, content |-> content, tool_calls |-> tool_calls,
     has_messages |-> has_messages, messages |-> messages,
     name |-> "", output |-> NoOutput]

\* on_chat_model_end with tool calls (name is that of the first call),
\* on_tool_start and on_tool_end (name is the event's name)
ToolRawEvent(event, tool_calls, name, output) ==
    [RawEvent(event, 0, tool_calls, FALSE, <<>>) EXCEPT !.name = name, !.output = output]

\* outputs carried by on_chain_end events: a node output without a message
\* list, and message lists with and without a finished assistant message
ChainEndOutput(i) ==
    CASE i = 1 -> [has_messages |-> FALSE, messages |-> <<>>]
      [] i = 2 -> [has_messages |-> TRUE,
                   messages |-> <<Message("human", 1, FALSE), Message("ai", 0, TRUE)>>]
      [] i = 3 -> [has_messages |-> TRUE,
                   messages |-> <<Message("human", 1, FALSE), Message("ai", 1, FALSE)>>]
      [] OTHER -> [has_messages |-> TRUE,
                   messages |-> <<Message("ai", 2, FALSE), Message("human", 1, FALSE),
                                  Message("ai", 1, TRUE)>>]

ChainEndKinds == 1..4

\* "for msg in reversed(messages)": the content of the last AIMessage that has
\* content and no tool calls, 0 when the scan finds none
RECURSIVE LastFinalAIContent(_)
LastFinalAIContent(messages) ==
    IF messages = <<>> THEN 0
    ELSE LET msg == messages[Len(messages)] IN
         IF msg.role = "ai" /\ msg.content # 0 /\ ~msg.tool_calls
         THEN msg.content
         ELSE LastFinalAIContent(SubSeq(messages, 1, Len(messages) - 1))

\* the output of the graph's own on_chain_end: the message list of the
\* finished run, which ends with the assistant's answer
IsTerminalOutput(o) ==
    /\ o.has_messages
    /\ o.messages # <<>>
    /\ LET msg == o.messages[Len(o.messages)] IN
          msg.role = "ai" /\ msg.content # 0 /\ ~msg.tool_calls

----------------------------------------------------------------------------
(* Tool results as text: banking_agent.py lines 232-267 and 313-345 *)

\* str(tool_output)[:100]
PreviewChars == 100

s_get_account_balance ==
    <<"g","e","t","_","a","c","c","o","u","n","t","_","b","a","l","a","n","c","e">>
s_get_transactions ==
    <<"g","e","t","_","t","r","a","n","s","a","c","t","i","o","n","s">>
s_banking_tool == <<"b","a","n","k","i","n","g","_","t","o","o","l">>

ToolNameChars(name) ==
    CASE name = "get_account_balance" -> s_get_account_balance
      [] name = "get_transactions"    -> s_get_transactions
      [] OTHER                        -> s_banking_tool

\* self.tools (line 37)
tools == <<"get_account_balance", "get_transactions", "get_credit_card_info",
           "search_bank_documents">>

\* the tools the model asks for in the runs below
ModelTools == {"get_account_balance", "get_transactions"}

\* a JSON object as the tools serialise it: its first key and n further characters
JsonText(key, n) == <<"{", key>> \o [i \in 1..n |-> "x"] \o <<"}">>

\* the string a tool returns in the runs below: get_account_balance the
\* accounts of the user, get_transactions an error envelope
ToolReturn(name) ==
    IF name = "get_account_balance" THEN JsonText("accounts", LongResult)
    ELSE JsonText("error", ShortResult)

\* json.loads: the text parses when it is an object; data is its first key
JsonLoads(text) ==
    IF Len(text) >= 3 /\ text[1] = "{" /\ text[Len(text)] = "}"
    THEN [ok |-> TRUE, key |-> text[2], items |-> Len(text) - 3]
    ELSE [ok |-> FALSE, key |-> "", items |-> 0]

\* str() of a ToolMessage: its fields, content first
StrOfToolMessage(name, text) ==
    <<"c","o","n","t","e","n","t","=","'">> \o text
    \o <<"'"," ","n","a","m","e","=","'">> \o ToolNameChars(name)
    \o <<"'"," ","t","o","o","l","_","c","a","l","l","_","i","d","=","'","c","1","'">>

\* _create_result_preview (lines 313-345)
create_result_preview(tool_name, tool_output) ==
    LET data == JsonLoads(tool_output) IN
    IF data.ok
    THEN IF tool_name = "get_account_balance" /\ data.key = "accounts"
         THEN <<"Found ", ToString(data.items), " accounts with total balance $">>
         ELSE IF tool_name = "get_transactions" /\ data.key = "transactions"
         THEN <<"Retrieved ", ToString(data.items), " recent transactions">>
         ELSE IF tool_name = "search_bank_documents" /\ data.key = "documents"
         THEN <<"Found ", ToString(data.items), " relevant documents">>
         ELSE <<"Tool ", tool_name, " completed successfully">>
    ELSE <<"Retrieved: ">>
         \o SubSeq(tool_output, 1, IF Len(tool_output) < PreviewChars
                                   THEN Len(tool_output) ELSE PreviewChars)
         \o (IF Len(tool_output) > PreviewChars THEN <<"...">> ELSE <<>>)

\* the on_tool_start branch (lines 201-230): the event data holds no name, the
\* tool input holds user_id and the node is "tools"
on_tool_start(event, step, emitted) ==
    [current_step |-> step + 1, final_answer_emitted |-> emitted,
     parsed |-> ExecutionStartStep(step + 1,
                    IF event.name = "" THEN "banking_tool" ELSE event.name)]

\* mutant: the on_tool_end branch counting a step of its own
on_tool_end_counting(event, step, emitted) ==
    LET o == event.output
        tool_name   == IF o.is_message THEN o.name ELSE "banking_tool"
        tool_output == IF o.is_message THEN StrOfToolMessage(o.name, o.text) ELSE o.text
    IN [current_step |-> step + 1, final_answer_emitted |-> emitted,
        parsed |-> ObservationStep(step + 1, tool_name,
                       <<"(eye) ">> \o create_result_preview(tool_name, tool_output))]

\* the on_tool_end branch (lines 233-267)
on_tool_end(event, step, emitted) ==
    LET o == event.output
        tool_name   == IF o.is_message THEN o.name ELSE "banking_tool"
        tool_output == IF o.is_message THEN StrOfToolMessage(o.name, o.text) ELSE o.text
    IN [current_step |-> step, final_answer_emitted |-> emitted,
        parsed |-> ObservationStep(step, tool_name,
                       <<"(eye) ">> \o create_result_preview(tool_name, tool_output))]

----------------------------------------------------------------------------
(* BankingAgent._parse_langgraph_event: banking_agent.py lines 107-311 *)

Parsed(step, emitted, parsed) ==
    [current_step |-> step, final_answer_emitted |-> emitted, parsed |-> parsed]

\* mutant: the on_chain_end branch without the once-only guard
on_chain_end_unguarded(event, step, emitted) ==
    LET content == IF event.has_messages THEN LastFinalAIContent(event.messages) ELSE 0 IN
    IF content # 0
    THEN Parsed(step + 1, TRUE, FinalAnswerStep(step + 1, content))
    ELSE Parsed(step, emitted, None)

\* the on_chain_end branch (lines 270-309)
on_chain_end(event, step, emitted) ==
    LET content == IF event.has_messages THEN LastFinalAIContent(event.messages) ELSE 0 IN
    IF content # 0 /\ ~emitted
    THEN Parsed(step + 1, TRUE, FinalAnswerStep(step + 1, content))
    ELSE Parsed(step, emitted, None)

parse_langgraph_event(event, step, emitted) ==
    CASE event.event = "on_chat_model_start" ->
            Parsed(step + 1, emitted, ReactStep("THOUGHT", step + 1))
      [] event.event = "on_chat_model_stream" ->
            IF event.content # 0
            THEN Parsed(step, emitted, ReasoningToken(step))
            ELSE Parsed(step, emitted, None)
      [] event.event = "on_chat_model_end" ->
            IF event.tool_calls > 0
            THEN Parsed(step, emitted, ActionStep(step, event.name))
            ELSE IF event.content # 0
            THEN Parsed(step, emitted, ReactStep("THOUGHT", step))
            ELSE Parsed(step, emitted, None)
      [] event.event = "on_tool_start" ->
            on_tool_start(event, step, emitted)
      [] event.event = "on_tool_end" ->
            on_tool_end(event, step, emitted)
      [] event.event = "on_chain_end" ->
            on_chain_end(event, step, emitted)
      [] OTHER -> Parsed(step, emitted, None)


----------------------------------------------------------------------------
(* The graph run behind self.agent.astream_events (banking_agent.py 68-76).   *)
(* The run alternates a model node and a tools node; every node execution is  *)
(* one super-step, and the run raises GraphRecursionError when a further      *)
(* super-step would exceed its recursion limit (the config of line 63 sets    *)
(* none, so the library's limit applies).                                     *)

NewRun(budget) ==
    [phase |-> "idle", toStart |-> 0, pending |-> 0, n |-> 0, budget |-> budget,
     supersteps |-> 0, cycles |-> 0, tokens |-> 0, final |-> FALSE, terminal |-> 0,
     raised |-> FALSE, tool |-> "", executed |-> <<>>, early |-> FALSE,
     tool_messages |-> TRUE, last |-> [event |-> "", content |-> 0],
     terminal_answer |-> 0]

TurnContexts ==
    { [user_id |-> s_jane_smith, thread_id |-> <<"t","1">>],
      [user_id |-> s_john_doe,   thread_id |-> <<"t","1">>] }

\* the configurable thread_id of a turn (line 63)
TurnKey(t) == MemoryKey(ctx[t].thread_id, ctx[t].user_id)

Emit(t, ev) == out' = [out EXCEPT ![t] = Append(@, ev)]

----------------------------------------------------------------------------
(* BankingAgent.stream_response: banking_agent.py lines 49-105.  Each action  *)
(* is the code run between two suspension points of the async generator.      *)

\* lines 53-58: the first yield
StartStream(t) ==
    /\ pc[t] = "new"
    /\ Emit(t, Plain("stream_start"))
    /\ pc' = [pc EXCEPT ![t] = "started"]
    /\ UNCHANGED <<current_step, final_answer_emitted, eng, ctx, toolVars, keyVars, evalVars, dataVars>>

\* mutant: the reset of lines 61-62 left out
ResetStateMissing(t) ==
    /\ pc[t] = "started"
    /\ pc' = [pc EXCEPT ![t] = "loop"]
    /\ UNCHANGED <<current_step, final_answer_emitted, out, eng, ctx, toolVars, keyVars, evalVars, dataVars>>

\* lines 60-63 and the entry into astream_events
ResetState(t) ==
    /\ pc[t] = "started"
    /\ current_step' = 0
    /\ final_answer_emitted' = FALSE
    /\ pc' = [pc EXCEPT ![t] = "loop"]
    /\ UNCHANGED <<out, eng, ctx, toolVars, keyVars, evalVars, dataVars>>

\* lines 77-81: one raw event is parsed and, unless None, yielded
Deliver(t, event, run) ==
    LET r == parse_langgraph_event(event, current_step, final_answer_emitted) IN
    /\ pc[t] = "loop"
    /\ eng[t].n < eng[t].budget
    /\ current_step' = r.current_step
    /\ final_answer_emitted' = r.final_answer_emitted
    /\ out' = [out EXCEPT ![t] = IF r.parsed.type = "none" THEN @ ELSE Append(@, r.parsed)]
    /\ eng' = [eng EXCEPT ![t] = [run EXCEPT !.n = @ + 1,
                                             !.last = [event |-> event.event,
                                                       content |-> event.content]]]
    /\ UNCHANGED <<pc, ctx, toolVars, keyVars, evalVars, dataVars>>

ModelStart(t) ==
    /\ eng[t].phase = "idle" /\ ~eng[t].final
    /\ eng[t].supersteps < RecursionLimit
    /\ Deliver(t, RawEvent("on_chat_model_start", 0, 0, FALSE, <<>>),
               [eng[t] EXCEPT !.phase = "model", !.supersteps = @ + 1,
                              !.cycles = @ + 1, !.tokens = 0])

ModelToken(t) ==
    /\ eng[t].phase = "model"
    /\ eng[t].tokens < MaxTokens
    /\ \E content \in {0, 1} :
          Deliver(t, RawEvent("on_chat_model_stream", content, 0, FALSE, <<>>),
                  [eng[t] EXCEPT !.tokens = @ + 1])

\* the model response requests k calls of a tool
ModelEndToolCallsOf(t, counts, names) ==
    /\ eng[t].phase = "model"
    /\ \E k \in counts, name \in names :
          Deliver(t, ToolRawEvent("on_chat_model_end", k, name, NoOutput),
                  [eng[t] EXCEPT !.phase = "tools_wait", !.toStart = k, !.tool = name])

\* the model response requests tool calls
ModelEndToolCalls(t) == ModelEndToolCallsOf(t, 1..MaxToolCalls, ModelTools)

\* the model response requests no tool call: the run has its last message
ModelEndFinal(t) ==
    /\ eng[t].phase = "model"
    /\ \E content \in {0, 1} :
          Deliver(t, RawEvent("on_chat_model_end", content, 0, FALSE, <<>>),
                  [eng[t] EXCEPT !.phase = "idle", !.final = TRUE])

ToolStart(t) ==
    /\ eng[t].toStart > 0
    /\ \/ /\ eng[t].phase = "tools_wait"
          /\ eng[t].supersteps < RecursionLimit
          /\ Deliver(t, ToolRawEvent("on_tool_start", 0, "", NoOutput),
                     [eng[t] EXCEPT !.phase = "tools", !.supersteps = @ + 1,
                                    !.toStart = @ - 1, !.pending = @ + 1])
       \/ /\ eng[t].phase = "tools"
          /\ Deliver(t, ToolRawEvent("on_tool_start", 0, "", NoOutput),
                     [eng[t] EXCEPT !.toStart = @ - 1, !.pending = @ + 1])

ToolEnd(t) ==
    /\ eng[t].phase = "tools"
    /\ eng[t].pending > 0
    /\ Deliver(t, ToolRawEvent("on_tool_end", 0, eng[t].tool,
                               ToolOutput(eng[t].tool_messages, eng[t].tool,
                                          ToolReturn(eng[t].tool))),
               [eng[t] EXCEPT !.pending = @ - 1,
                              !.executed = Append(@, eng[t].tool),
                              !.phase = IF eng[t].pending = 1 /\ eng[t].toStart = 0
                                        THEN "idle" ELSE "tools"])

\* a node or the graph itself completes, between two node executions
ChainEnd(t) ==
    /\ eng[t].phase \in {"idle", "tools_wait"}
    /\ \E k \in ChainEndKinds :
        LET o == ChainEndOutput(k) IN
        Deliver(t, RawEvent("on_chain_end", 0, 0, o.has_messages, o.messages),
                [eng[t] EXCEPT !.terminal =
                    IF o.has_messages /\ LastFinalAIContent(o.messages) # 0
                    THEN @ + 1 ELSE @,
                               !.early =
                    IF o.has_messages /\ LastFinalAIContent(o.messages) # 0
                       /\ ~eng[t].final
                    THEN TRUE ELSE @,
                               !.terminal_answer =
                    IF eng[t].final /\ IsTerminalOutput(o)
                    THEN LastFinalAIContent(o.messages) ELSE @])

\* the async for loop ends; lines 93-97
EngineEnd(t) ==
    /\ pc[t] = "loop"
    /\ eng[t].phase = "idle" /\ eng[t].final
    /\ Emit(t, Plain("stream_complete"))
    /\ pc' = [pc EXCEPT ![t] = "complete"]
    /\ UNCHANGED <<current_step, final_answer_emitted, eng, ctx, toolVars, keyVars, evalVars, dataVars>>

\* mutant: an except block that yields nothing
RaiseSwallowed(t) ==
    /\ pc' = [pc EXCEPT ![t] = "error"]
    /\ eng' = [eng EXCEPT ![t] = [@ EXCEPT !.raised = TRUE]]
    /\ UNCHANGED <<current_step, final_answer_emitted, out, ctx, toolVars, keyVars, evalVars, dataVars>>

\* lines 83-91: the except block yields the error event
Raise(t) ==
    /\ Emit(t, Plain("error"))
    /\ pc' = [pc EXCEPT ![t] = "error"]
    /\ eng' = [eng EXCEPT ![t] = [@ EXCEPT !.raised = TRUE]]
    /\ UNCHANGED <<current_step, final_answer_emitted, ctx, toolVars, keyVars, evalVars, dataVars>>

\* the model call, a tool or the run raises while the loop awaits an event
EngineRaise(t) ==
    /\ pc[t] = "loop"
    /\ Raise(t)

\* mutant: at the limit the run raises nothing and delivers nothing more
GraphRecursionHang(t) ==
    /\ pc[t] = "loop"
    /\ eng[t].supersteps >= RecursionLimit
    /\ \/ eng[t].phase = "idle" /\ ~eng[t].final
       \/ eng[t].phase = "tools_wait"
    /\ UNCHANGED vars

\* the next super-step would exceed the recursion limit
GraphRecursionError(t) ==
    /\ pc[t] = "loop"
    /\ eng[t].supersteps >= RecursionLimit
    /\ \/ eng[t].phase = "idle" /\ ~eng[t].final
       \/ eng[t].phase = "tools_wait"
    /\ Raise(t)

\* mutant: the generator returns after the error event
AfterErrorReturn(t) ==
    /\ pc[t] = "error"
    /\ pc' = [pc EXCEPT ![t] = "done"]
    /\ UNCHANGED <<current_step, final_answer_emitted, out, eng, ctx, toolVars, keyVars, evalVars, dataVars>>

\* after the error event: lines 93-97
AfterError(t) ==
    /\ pc[t] = "error"
    /\ Emit(t, Plain("stream_complete"))
    /\ pc' = [pc EXCEPT ![t] = "complete"]
    /\ UNCHANGED <<current_step, final_answer_emitted, eng, ctx, toolVars, keyVars, evalVars, dataVars>>

\* lines 99-105
Completion(t) ==
    /\ pc[t] = "complete"
    /\ Emit(t, CompletionEvent(Len(tools)))
    /\ pc' = [pc EXCEPT ![t] = "completion"]
    /\ UNCHANGED <<current_step, final_answer_emitted, eng, ctx, toolVars, keyVars, evalVars, dataVars>>

\* the generator returns
Finish(t) ==
    /\ pc[t] = "completion"
    /\ pc' = [pc EXCEPT ![t] = "done"]
    /\ UNCHANGED <<current_step, final_answer_emitted, out, eng, ctx, toolVars, keyVars, evalVars, dataVars>>

----------------------------------------------------------------------------
(* The judge of the workflow: src/src/app/evaluation/llm_judge.py and        *)
(* evaluation_models.py                                                       *)

\* scores a judge model may put into its reply: below, inside and above 1..5
JudgeScores == (5 - MaxJudgeScore)..MaxJudgeScore

CriteriaScores == UNION {[1..n -> JudgeScores] : n \in 0..MaxCriteria}

\* what self.llm.ainvoke does: it raises, or the model replies with scores
JudgeReply(kind, overall_score, criteria_scores) ==
    [kind |-> kind, overall_score |-> overall_score, criteria_scores |-> criteria_scores]

JudgeReplies ==
    {JudgeReply("raises", 0, <<>>)} \cup
    {JudgeReply("reply", s, c) : s \in JudgeScores, c \in CriteriaScores}

\* Field(ge=1, le=5) of EvaluationCriteria.score and ResponseEvaluation.overall_score
ScoreInRange(score) == score >= 1 /\ score <= 5

\* the ResponseEvaluation model: construction validates every score
ResponseEvaluation(overall_score, criteria_scores, confidence_level, summary) ==
    [overall_score |-> overall_score, criteria_scores |-> criteria_scores,
     confidence_level |-> confidence_level, summary |-> summary]

ValidResponseEvaluation(reply) ==
    /\ ScoreInRange(reply.overall_score)
    /\ \A i \in 1..Len(reply.criteria_scores) : ScoreInRange(reply.criteria_scores[i])

\* lines 105-116: the evaluation returned from the except block
DefaultEvaluation ==
    ResponseEvaluation(3, <<>>, "Medium", "Evaluation unavailable due to technical error")

\* BankingResponseJudge.evaluate_response (lines 60-116): the structured
\* output of line 98 is a validated ResponseEvaluation, so a reply with a
\* score outside 1..5 raises inside ainvoke like any other failure
evaluate_response(reply) ==
    IF reply.kind = "raises" \/ ~ValidResponseEvaluation(reply)
    THEN DefaultEvaluation
    ELSE ResponseEvaluation(reply.overall_score, reply.criteria_scores, "High", "evaluated")

----------------------------------------------------------------------------
(* BankingWorkflow.stream_with_evaluation: banking_workflow.py lines 28-93.  *)
(* Phase 1 forwards every chunk of stream_response in the step that yields   *)
(* it (no suspension point lies between the two yields), so the chunks the   *)
(* workflow has seen and forwarded are out[t]; the actions below are phase 2.*)

NewWorkflow ==
    [pc |-> "streaming", at |-> 0, response |-> 0, context |-> <<>>,
     evaluation |-> ResponseEvaluation(0, <<>>, "", ""), events |-> <<>>]

\* lines 51-52: response_content after the chunks seen so far
RECURSIVE LastFinalAnswer(_)
LastFinalAnswer(events) ==
    IF events = <<>> THEN 0
    ELSE LET chunk == events[Len(events)] IN
         IF chunk.type = "react_step" /\ chunk.phase = "FINAL_ANSWER"
         THEN chunk.final_answer
         ELSE LastFinalAnswer(SubSeq(events, 1, Len(events) - 1))

ResponseContent(t) == LastFinalAnswer(out[t])

\* lines 54-59: context_data after the chunks seen so far, one entry per
\* OBSERVATION chunk with the chunk's content as tool_output
RECURSIVE CollectContext(_)
CollectContext(events) ==
    IF events = <<>> THEN <<>>
    ELSE LET chunk == events[Len(events)]
             rest  == CollectContext(SubSeq(events, 1, Len(events) - 1))
         IN IF chunk.type = "react_step" /\ chunk.phase = "OBSERVATION"
            THEN Append(rest, [tool_name |-> chunk.tool_name, tool_output |-> chunk.content])
            ELSE rest

ContextData(t) == CollectContext(out[t])

\* replies of the judge model during a workflow turn
WorkflowJudgeReplies ==
    {JudgeReply("raises", 0, <<>>), JudgeReply("reply", 4, <<4>>),
     JudgeReply("reply", MaxJudgeScore, <<>>)}

\* mutant: phase 2 without the test of response_content
RunEvaluationAlways(t) ==
    /\ wf[t].pc = "streaming"
    /\ pc[t] = "done"
    /\ wf' = [wf EXCEPT ![t] = [@ EXCEPT !.pc = "judging", !.at = Len(out[t]),
                                          !.response = ResponseContent(t),
                                          !.context = ContextData(t)]]
    /\ UNCHANGED <<turnVars, toolVars, keyVars, judgeCall, svc, dataVars>>

\* mutant: the judge is invoked as soon as a final answer has been seen
RunEvaluationEarly(t) ==
    /\ wf[t].pc = "streaming"
    /\ ResponseContent(t) # 0
    /\ wf' = [wf EXCEPT ![t] = [@ EXCEPT !.pc = "judging", !.at = Len(out[t]),
                                          !.response = ResponseContent(t),
                                          !.context = ContextData(t)]]
    /\ UNCHANGED <<turnVars, toolVars, keyVars, judgeCall, svc, dataVars>>

\* lines 64-73: the async for loop has ended and response_content is not
\* empty; evaluate_response is called and awaits the judge model
RunEvaluation(t) ==
    /\ wf[t].pc = "streaming"
    /\ pc[t] = "done"
    /\ ResponseContent(t) # 0
    /\ wf' = [wf EXCEPT ![t] = [@ EXCEPT !.pc = "judging", !.at = Len(out[t]),
                                          !.response = ResponseContent(t),
                                          !.context = ContextData(t)]]
    /\ UNCHANGED <<turnVars, toolVars, keyVars, judgeCall, svc, dataVars>>

\* lines 85-86: no final answer was collected, nothing is evaluated
SkipEvaluation(t) ==
    /\ wf[t].pc = "streaming"
    /\ pc[t] = "done"
    /\ ResponseContent(t) = 0
    /\ wf' = [wf EXCEPT ![t] = [@ EXCEPT !.pc = "end"]]
    /\ UNCHANGED <<turnVars, toolVars, keyVars, judgeCall, svc, dataVars>>

\* lines 69-82: evaluate_response returns and evaluation_complete is yielded
YieldEvaluation(t) ==
    /\ wf[t].pc = "judging"
    /\ \E reply \in WorkflowJudgeReplies :
          wf' = [wf EXCEPT ![t] = [@ EXCEPT !.pc = "evaluated",
                                            !.evaluation = evaluate_response(reply),
                                            !.events = Append(@, "evaluation_complete")]]
    /\ UNCHANGED <<turnVars, toolVars, keyVars, judgeCall, svc, dataVars>>

\* line 84 and the return of the workflow generator
EndWorkflow(t) ==
    /\ wf[t].pc = "evaluated"
    /\ wf' = [wf EXCEPT ![t] = [@ EXCEPT !.pc = "end"]]
    /\ UNCHANGED <<turnVars, toolVars, keyVars, judgeCall, svc, dataVars>>

\* the judge called on its own with every reply of the judge model
NoJudgeCall == [judge |-> "none", reply |-> JudgeReply("raises", 0, <<>>),
                result |-> ResponseEvaluation(0, <<>>, "", "")]

CallEvaluateResponse ==
    /\ judgeCall.judge = "none"
    /\ \E reply \in JudgeReplies :
          judgeCall' = [judge |-> "llm_judge", reply |-> reply,
                        result |-> evaluate_response(reply)]
    /\ UNCHANGED <<turnVars, toolVars, keyVars, wf, svc, dataVars>>

----------------------------------------------------------------------------
(* ChatService.stream_message (services/chat_service.py lines 122-238) and   *)
(* the endpoint that streams it (api/endpoints/chat.py lines 38-75).  The    *)
(* service forwards every chunk of the workflow and collects from it; what   *)
(* it has collected when the workflow's stream ends is a function of the     *)
(* chunks.  A text is a sequence of pieces: tokens and whole answers.        *)

TokenPiece     == [kind |-> "token", id |-> 0]
AnswerPiece(n) == [kind |-> "answer", id |-> n]

\* lines 156-176: full_response after the chunks seen so far
RECURSIVE FullResponse(_)
FullResponse(events) ==
    IF events = <<>> THEN <<>>
    ELSE LET chunk == events[Len(events)]
             rest  == FullResponse(SubSeq(events, 1, Len(events) - 1))
         IN IF chunk.type = "reasoning_token"
            THEN Append(rest, TokenPiece)
            ELSE IF chunk.type = "react_step" /\ chunk.phase = "FINAL_ANSWER"
                    /\ chunk.final_answer # 0
            THEN <<AnswerPiece(chunk.final_answer)>>
            ELSE rest

NewService == [pc |-> "streaming", rows |-> <<>>, events |-> <<>>, disconnected |-> FALSE]

\* lines 182-202: the async for loop has ended; the ChatHistory row is added
\* and committed when full_response is not empty.  A failing commit raises
\* into the except block of line 224.
SaveChatHistory(t) ==
    /\ svc[t].pc = "streaming"
    /\ wf[t].pc = "end"
    /\ LET full_response == FullResponse(out[t]) IN
       \/ /\ full_response # <<>>
          /\ svc' = [svc EXCEPT ![t] = [@ EXCEPT !.pc = "saved",
                          !.rows = Append(@, [bot_response |-> full_response])]]
       \/ /\ full_response # <<>>
          /\ svc' = [svc EXCEPT ![t] = [@ EXCEPT !.pc = "end",
                          !.events = Append(@, "error")]]
       \/ /\ full_response = <<>>
          /\ svc' = [svc EXCEPT ![t] = [@ EXCEPT !.pc = "saved"]]
    /\ UNCHANGED <<turnVars, toolVars, keyVars, wf, judgeCall, dataVars>>

\* lines 204-222: the completion event with the evaluation summary, then the
\* generator returns
ServiceCompletion(t) ==
    /\ svc[t].pc = "saved"
    /\ svc' = [svc EXCEPT ![t] = [@ EXCEPT !.pc = "end",
                    !.events = IF wf[t].events # <<>>
                               THEN Append(@, "completion") ELSE @]]
    /\ UNCHANGED <<turnVars, toolVars, keyVars, wf, judgeCall, dataVars>>

\* mutant: the turn runs in a task of its own, which a disconnection of the
\* client leaves running
ClientDisconnectDetached(t) ==
    /\ svc[t].pc = "streaming"
    /\ wf[t].pc \in {"streaming", "judging", "evaluated"}
    /\ svc' = [svc EXCEPT ![t] = [@ EXCEPT !.disconnected = TRUE]]
    /\ UNCHANGED <<turnVars, toolVars, keyVars, wf, judgeCall, dataVars>>

\* the client disconnects while the response is streamed: the server cancels
\* the task that iterates generate_stream, and CancelledError (or
\* GeneratorExit when the generators are closed) is raised at the point
\* where the chain of generators is suspended.  Neither is an Exception, so
\* the "except Exception" blocks of banking_agent.py line 83,
\* banking_workflow.py line 88, llm_judge.py line 105, chat_service.py line
\* 224 and chat.py line 52 do not catch it: every generator of the chain
\* ends there and the run behind astream_events is cancelled with it.
ClientDisconnect(t) ==
    /\ svc[t].pc = "streaming"
    /\ wf[t].pc \in {"streaming", "judging", "evaluated"}
    /\ svc' = [svc EXCEPT ![t] = [@ EXCEPT !.pc = "cancelled", !.disconnected = TRUE]]
    /\ wf' = [wf EXCEPT ![t] = [@ EXCEPT !.pc = "cancelled"]]
    /\ pc' = [pc EXCEPT ![t] = IF @ = "done" THEN "done" ELSE "cancelled"]
    /\ UNCHANGED <<current_step, final_answer_emitted, out, eng, ctx,
                   toolVars, keyVars, judgeCall, dataVars>>

----------------------------------------------------------------------------
(* The judge of src/src/app/agents/response_judge.py: it parses the model's  *)
(* JSON itself.  Its scores may be fractional (round(x, 1)), so the scores   *)
(* of its result are held in tenths: 42 is 4.2.                              *)

\* required_fields of line 176
RequiredFields == <<"overall_score", "accuracy", "completeness",
                    "context_adherence", "professional_quality">>

RequiredFieldSet == {RequiredFields[i] : i \in 1..Len(RequiredFields)}

\* the JSON objects a model reply may hold: any of the required fields, each
\* with a score
JsonScores == UNION {[given -> JudgeScores] : given \in SUBSET RequiredFieldSet}

JsonReply(kind, scores) == [kind |-> kind, scores |-> scores]

\* the model call raises, its reply is not JSON, or it holds a JSON object
JsonReplies ==
    {JsonReply("raises", <<>>), JsonReply("unparsable", <<>>)} \cup
    {JsonReply("json", scores) : scores \in JsonScores}

\* max(1, min(5, score))
ClampScore(score) == IF score < 1 THEN 1 ELSE IF score > 5 THEN 5 ELSE score

\* round(sum(scores) / len(scores), 1) for four integer scores, in tenths:
\* the quotient is a multiple of 0.25 and a tie rounds to the even digit
RoundedMeanTenths(total) ==
    LET q == (total * 10) \div 4
        r == (total * 10) % 4
    IN IF r = 0 THEN q ELSE IF q % 2 = 0 THEN q ELSE q + 1

\* _create_fallback_evaluation (lines 197-210)
create_fallback_evaluation ==
    [scores |-> [f \in RequiredFieldSet |-> 30], error |-> TRUE]

\* _parse_evaluation_response (lines 162-195)
parse_evaluation_response(reply) ==
    IF reply.kind # "json" THEN create_fallback_evaluation
    ELSE LET filled  == [f \in RequiredFieldSet |->
                            IF f \in DOMAIN reply.scores THEN reply.scores[f] ELSE 3]
             clamped == [f \in RequiredFieldSet |-> ClampScore(filled[f])]
             total   == clamped["accuracy"] + clamped["completeness"]
                        + clamped["context_adherence"] + clamped["professional_quality"]
         IN [scores |-> [f \in RequiredFieldSet |->
                            IF f = "overall_score" /\ clamped[f] = 3
                            THEN RoundedMeanTenths(total)
                            ELSE 10 * clamped[f]],
             error |-> FALSE]

\* evaluate_response of response_judge.py (lines 71-125)
evaluate_response_json(reply) ==
    IF reply.kind = "raises" THEN create_fallback_evaluation
    ELSE parse_evaluation_response(reply)

CallEvaluateResponseJson ==
    /\ judgeCall.judge = "none"
    /\ \E reply \in JsonReplies :
          judgeCall' = [judge |-> "response_judge", reply |-> reply,
                        result |-> evaluate_response_json(reply)]
    /\ UNCHANGED <<turnVars, toolVars, keyVars, wf, svc, dataVars>>

----------------------------------------------------------------------------
(* get_transactions with its limit, and the card numbers returned by         *)
(* get_credit_card_info: sql_retrieval_tool.py lines 94-193 and 233-255.     *)
(* A JSON object is a record whose fields are the keys it holds.             *)

\* "limit: int = 10" of line 96
DefaultLimit == 10

\* limits a caller may pass: below, at and above the ends of the documented range
Limits == {0 - 1, 0, 1, 2, DefaultLimit, 100, 101}

\* what the store holds for the queried user: whether an active account
\* matches, and the ids of the transactions matching the filters, newest first
TransactionStores ==
    {[accounts |-> a, matching |-> [i \in 1..m |-> i]] : a \in BOOLEAN, m \in 0..MaxRows}

\* query.limit(limit).all() on the SQLite store: LIMIT 0 yields no row and a
\* negative LIMIT is no upper bound
LimitRows(rows, limit) ==
    IF limit < 0 THEN rows
    ELSE SubSeq(rows, 1, IF limit < Len(rows) THEN limit ELSE Len(rows))

\* get_transactions (lines 94-193) with its limit argument
get_transactions_json(user_id, limit, mode, store) ==
    LET envelope == get_transactions(user_id, mode) IN
    IF envelope.kind = "raised" THEN [raised |-> envelope.error]
    ELSE IF envelope.kind = "error" THEN [error |-> envelope.error]
    ELSE IF ~store.accounts THEN [transactions |-> <<>>, total_count |-> 0]
    ELSE [transactions |-> LimitRows(store.matching, limit),
          total_count |-> Len(store.matching),
          limit |-> limit,
          account_filter |-> ""]

NoTxCall == [made |-> FALSE, user_id |-> s_empty, limit |-> 0, mode |-> "ok",
             store |-> [accounts |-> FALSE, matching |-> <<>>],
             result |-> [error |-> ""]]

CallGetTransactionsLimit ==
    /\ ~txCall.made
    /\ \E user_id \in {s_jane_smith, s_john_doe, s_ghost, s_user_id},
          limit \in Limits, mode \in DbModes, store \in TransactionStores :
          txCall' = [made |-> TRUE, user_id |-> user_id, limit |-> limit, mode |-> mode,
                     store |-> store,
                     result |-> get_transactions_json(user_id, limit, mode, store)]
    /\ UNCHANGED <<turnVars, toolVars, keyVars, evalVars, cardCall, tagCall, cacheVars>>

\* stored card numbers: CreditCard.card_number is String(20) and unchecked
CardDigits == {"1", "2", "3"}

CardNumbers == StringsOver(CardDigits, 1, MaxCardLen)

\* the four asterisk groups of line 241
MaskPrefix == <<"*","*","*","*","-","*","*","*","*","-","*","*","*","*","-">>

\* card.card_number[-n:]
LastChars(text, n) ==
    IF Len(text) <= n THEN text ELSE SubSeq(text, Len(text) - n + 1, Len(text))

\* line 241: the card_number put into the result
MaskCardNumber(card_number) ==
    IF Len(card_number) >= 4
    THEN MaskPrefix \o LastChars(card_number, 4)
    ELSE card_number

NoCardCall == [made |-> FALSE, stored |-> <<>>, returned |-> <<>>]

\* get_credit_card_info returns an active card of the user
ReturnCreditCard ==
    /\ ~cardCall.made
    /\ \E card_number \in CardNumbers :
          cardCall' = [made |-> TRUE, stored |-> card_number,
                       returned |-> MaskCardNumber(card_number)]
    /\ UNCHANGED <<turnVars, toolVars, keyVars, evalVars, txCall, tagCall, cacheVars>>

----------------------------------------------------------------------------
(* The identity tag: banking_agent.py line 71 and utils/prompts.py lines     *)
(* 12-17.  UserCreate.user_id is any string of 3 to 50 characters and        *)
(* ChatMessage.message any string of 1 to 5000 characters.                   *)

\* min_length of UserCreate.user_id and of ChatMessage.message
MinUserIdLen  == 3
MinMessageLen == 1

TagAlphabet == {"a", "]", " "}

TagUserIds  == StringsOver(TagAlphabet, MinUserIdLen, MaxTagIdLen)
RawMessages == StringsOver(TagAlphabet, MinMessageLen, MaxMessageLen)

\* "[AUTHENTICATED_USER_ID: "
s_tag_open == <<"[","A","U","T","H","E","N","T","I","C","A","T","E","D","_",
                "U","S","E","R","_","I","D",":"," ">>

\* f"[AUTHENTICATED_USER_ID: {user_id}] {message}"
HumanMessageContent(user_id, message) ==
    s_tag_open \o user_id \o <<"]", " ">> \o message

\* position of the first "]" of text at or after position i, 0 when there is none
RECURSIVE FirstClose(_, _)
FirstClose(text, i) ==
    IF i > Len(text) THEN 0
    ELSE IF text[i] = "]" THEN i
    ELSE FirstClose(text, i + 1)

\* the prompt's "Each message starts with: [AUTHENTICATED_USER_ID: user_id]",
\* "Extract the user_id from this prefix": the text between the opening of
\* the tag and the bracket that closes it
ExtractUserId(content) ==
    LET close == FirstClose(content, Len(s_tag_open) + 1) IN
    IF close = 0 THEN <<>>
    ELSE SubSeq(content, Len(s_tag_open) + 1, close - 1)

\* what follows the closing bracket and its space
ExtractMessage(content) ==
    LET close == FirstClose(content, Len(s_tag_open) + 1) IN
    IF close = 0 THEN <<>>
    ELSE SubSeq(content, close + 2, Len(content))

NoTagCall == [made |-> FALSE, user_id |-> <<>>, message |-> <<>>, content |-> <<>>]

\* stream_response builds the HumanMessage of a turn of user_id
BuildHumanMessage ==
    /\ ~tagCall.made
    /\ \E user_id \in TagUserIds, message \in RawMessages :
          tagCall' = [made |-> TRUE, user_id |-> user_id, message |-> message,
                      content |-> HumanMessageContent(user_id, message)]
    /\ UNCHANGED <<turnVars, toolVars, keyVars, evalVars, txCall, cardCall, cacheVars>>

----------------------------------------------------------------------------
(* The agent object and its accessor: banking_agent.py lines 25-47 and       *)
(* 376-385.  Agents are identified by the order of their construction.       *)

\* what __init__ sets on a BankingAgent (lines 29-47)
BankingAgentAttributes == {"llm", "tools", "agent", "current_step", "current_state"}

\* the methods of the class
BankingAgentMethods ==
    {"stream_response", "_parse_langgraph_event", "_create_result_preview",
     "get_conversation_history"}

\* getattr on a BankingAgent
HasAttr(name) == name \in BankingAgentAttributes \cup BankingAgentMethods

AgentUsers == {s_jane_smith, s_john_doe, s_test_user}

AgentCall(op, user_id, kind, agent) ==
    [op |-> op, user_id |-> user_id, kind |-> kind, agent |-> agent]

\* get_banking_agent(user_id) (lines 380-385): the one shared instance
GetBankingAgent ==
    /\ Len(agentCalls) < MaxAgentCalls
    /\ \E user_id \in AgentUsers :
          /\ agent_instance' = IF agent_instance = 0 THEN 1 ELSE agent_instance
          /\ agentCalls' = Append(agentCalls,
                                  AgentCall("get_banking_agent", user_id, "agent",
                                            agent_instance'))
    /\ UNCHANGED <<turnVars, toolVars, keyVars, evalVars, txCall, cardCall, tagCall>>

\* agent._get_user_agent(user_id) on the instance: the attribute lookup
GetUserAgent ==
    /\ Len(agentCalls) < MaxAgentCalls
    /\ agent_instance # 0
    /\ \E user_id \in AgentUsers :
          agentCalls' = Append(agentCalls,
              IF HasAttr("_get_user_agent")
              THEN AgentCall("_get_user_agent", user_id, "agent", agent_instance)
              ELSE AgentCall("_get_user_agent", user_id, "AttributeError", 0))
    /\ UNCHANGED <<turnVars, toolVars, keyVars, evalVars, txCall, cardCall, tagCall,
                   agent_instance>>

----------------------------------------------------------------------------
(* Specifications *)

InitTools ==
    /\ lastCall = NoCall
    /\ nCalls = 0
    /\ dbOps = 0

InitKey ==
    /\ memory = {}
    /\ resolved = [by |-> s_empty, owners |-> {}]

InitEvaluation ==
    /\ wf = [t \in Turns |-> NewWorkflow]
    /\ judgeCall = NoJudgeCall
    /\ svc = [t \in Turns |-> NewService]

InitData ==
    /\ txCall = NoTxCall
    /\ cardCall = NoCardCall
    /\ tagCall = NoTagCall
    /\ agent_instance = 0
    /\ agentCalls = <<>>

InitAgent(budget) ==
    /\ current_step = 0
    /\ final_answer_emitted = FALSE
    /\ pc = [t \in Turns |-> "new"]
    /\ out = [t \in Turns |-> <<>>]
    /\ \E tool_messages \in BOOLEAN :
          eng = [t \in Turns |-> [NewRun(budget[t]) EXCEPT !.tool_messages = tool_messages]]

\* turns of the shared agent of get_banking_agent, run concurrently
Init ==
    /\ InitAgent([t \in Turns |-> IF t = 1 THEN MaxEvents ELSE MaxOtherEvents])
    /\ ctx \in {c \in [Turns -> TurnContexts] : c[1].user_id = s_jane_smith}
    /\ InitTools
    /\ InitKey
    /\ InitEvaluation
    /\ InitData

Next ==
    \E t \in Turns :
        \/ StartStream(t)
        \/ ResetState(t)
        \/ ModelStart(t)
        \/ ModelToken(t)
        \/ ModelEndToolCalls(t)
        \/ ModelEndFinal(t)
        \/ ToolStart(t)
        \/ ToolEnd(t)
        \/ ChainEnd(t)
        \/ EngineEnd(t)
        \/ EngineRaise(t)
        \/ AfterError(t)
        \/ Completion(t)
        \/ Finish(t)

Spec == Init /\ [][Next]_vars

\* one turn against a model that requests a tool call on every response.
\* Weak fairness: the event loop resumes the generator whenever its consumer
\* asks for the next event, and every model or tool call of the run returns.
LoopBudget == RecursionLimit * (2 + MaxTokens + 2 * MaxToolCalls)

InitLoop ==
    /\ InitAgent([t \in Turns |-> LoopBudget])
    /\ ctx \in {c \in [Turns -> TurnContexts] : c[1].user_id = s_jane_smith}
    /\ InitTools
    /\ InitKey
    /\ InitEvaluation
    /\ InitData

NextLoop ==
    \/ StartStream(1)
    \/ ResetState(1)
    \/ ModelStart(1)
    \/ ModelToken(1)
    \/ ModelEndToolCalls(1)
    \/ ToolStart(1)
    \/ ToolEnd(1)
    \/ GraphRecursionError(1)
    \/ AfterError(1)
    \/ Completion(1)
    \/ Finish(1)

SpecLoop == InitLoop /\ [][NextLoop]_vars /\ WF_vars(NextLoop)

\* one turn of the agent, no other turn in progress
InitTurn ==
    /\ InitAgent([t \in Turns |-> MaxTurnEvents])
    /\ ctx \in {c \in [Turns -> TurnContexts] : c[1].user_id = s_jane_smith}
    /\ InitTools
    /\ InitKey
    /\ InitEvaluation
    /\ InitData

NextTurn ==
    \/ StartStream(1)
    \/ ResetState(1)
    \/ ModelStart(1)
    \/ ModelToken(1)
    \/ ModelEndToolCalls(1)
    \/ ModelEndFinal(1)
    \/ ToolStart(1)
    \/ ToolEnd(1)
    \/ ChainEnd(1)
    \/ EngineEnd(1)
    \/ EngineRaise(1)
    \/ AfterError(1)
    \/ Completion(1)
    \/ Finish(1)

SpecTurn == InitTurn /\ [][NextTurn]_vars

\* the turn of the balance question: the model asks for get_account_balance
\* once and answers on its next response; no call fails
RequestBalance ==
    /\ eng[1].cycles = 1
    /\ ModelEndToolCallsOf(1, {1}, {"get_account_balance"})

AnswerBalance ==
    /\ eng[1].cycles = 2
    /\ ModelEndFinal(1)

InitBalance ==
    /\ InitAgent([t \in Turns |-> MaxBalanceEvents])
    /\ ctx \in {c \in [Turns -> TurnContexts] : c[1].user_id = s_jane_smith}
    /\ InitTools
    /\ InitKey
    /\ InitEvaluation
    /\ InitData

NextBalance ==
    \/ StartStream(1)
    \/ ResetState(1)
    \/ ModelStart(1)
    \/ ModelToken(1)
    \/ RequestBalance
    \/ ToolStart(1)
    \/ ToolEnd(1)
    \/ AnswerBalance
    \/ ChainEnd(1)
    \/ EngineEnd(1)
    \/ Completion(1)
    \/ Finish(1)

SpecBalance == InitBalance /\ [][NextBalance]_vars

\* one turn streamed through the workflow: the agent's stream, then the judge
NextWorkflow ==
    \/ NextTurn
    \/ RunEvaluation(1)
    \/ SkipEvaluation(1)
    \/ YieldEvaluation(1)
    \/ EndWorkflow(1)

SpecWorkflow == InitTurn /\ [][NextWorkflow]_vars

\* two turns run one after the other on the shared agent: the later one
\* starts when the generator of the earlier one has returned
StartNextTurn ==
    /\ pc[1] = "done"
    /\ StartStream(2)

InitSequential ==
    /\ InitAgent([t \in Turns |-> IF t = 1 THEN MaxEarlierEvents ELSE MaxLaterEvents])
    /\ ctx \in {c \in [Turns -> TurnContexts] : c[1].user_id = s_jane_smith}
    /\ InitTools
    /\ InitKey
    /\ InitEvaluation
    /\ InitData

\* a turn of the sequence whose run does not raise
SequentialTurn(t) ==
    \/ ResetState(t)
    \/ ModelStart(t)
    \/ ModelToken(t)
    \/ ModelEndToolCalls(t)
    \/ ModelEndFinal(t)
    \/ ToolStart(t)
    \/ ToolEnd(t)
    \/ ChainEnd(t)
    \/ EngineEnd(t)
    \/ Completion(t)
    \/ Finish(t)

NextSequential ==
    \/ StartStream(1)
    \/ SequentialTurn(1)
    \/ StartNextTurn
    \/ SequentialTurn(2)

SpecSequential == InitSequential /\ [][NextSequential]_vars

\* one turn streamed to a client through the chat service: the workflow's
\* stream, the ChatHistory row, and a client that may disconnect
NextService ==
    \/ NextWorkflow
    \/ SaveChatHistory(1)
    \/ ServiceCompletion(1)
    \/ ClientDisconnect(1)

SpecService == InitTurn /\ [][NextService]_vars

\* the tool layer called with every user_id argument
InitToolLayer ==
    /\ InitAgent([t \in Turns |-> MaxEvents])
    /\ ctx = [t \in Turns |-> CHOOSE c \in TurnContexts : c.user_id = s_jane_smith]
    /\ InitTools
    /\ InitKey
    /\ InitEvaluation
    /\ InitData

NextTools ==
    \/ CallGetAccountBalance
    \/ CallGetTransactions
    \/ CallGetCreditCardInfo

SpecTools == InitToolLayer /\ [][NextTools]_vars

\* memory entries written and looked up under the computed key
NextKey ==
    \/ WriteMemory
    \/ GetConversationHistory

SpecKey == InitToolLayer /\ [][NextKey]_vars

\* get_transactions called with every limit against every store
NextTransactions == CallGetTransactionsLimit

SpecTransactions == InitToolLayer /\ [][NextTransactions]_vars

\* get_credit_card_info returning every stored card number
NextCards == ReturnCreditCard

SpecCards == InitToolLayer /\ [][NextCards]_vars

\* the judge called with every reply of the judge model
NextJudge ==
    \/ CallEvaluateResponse
    \/ CallEvaluateResponseJson

SpecJudge == InitToolLayer /\ [][NextJudge]_vars

\* the tagged message built for every user id and raw message
NextTag == BuildHumanMessage

SpecTag == InitToolLayer /\ [][NextTag]_vars

\* agents obtained for several users
NextAgents ==
    \/ GetBankingAgent
    \/ GetUserAgent

SpecAgents == InitToolLayer /\ [][NextAgents]_vars


----------------------------------------------------------------------------
(* Observations on a turn's stream *)

\* positions of the events of a type, and of the react_step events of a phase
EventsOfType(t, type) == {i \in 1..Len(out[t]) : out[t][i].type = type}
StepsOfPhase(t, phase) ==
    {i \in 1..Len(out[t]) : out[t][i].type = "react_step" /\ out[t][i].phase = phase}

IsStepEvent(e) == e.type \in {"react_step", "reasoning_token"}

\* the react_step and reasoning_token events of the stream, in order
StepEvents(t) == SelectSeq(out[t], IsStepEvent)

\* stream_start has been yielded and stream_complete has not
InFlight(t) == pc[t] \in {"started", "loop", "error"}

\* the step of the model moved turn u
Acted(u) == pc'[u] # pc[u] \/ out'[u] # out[u] \/ eng'[u] # eng[u]

----------------------------------------------------------------------------
(* Claims *)

\* C1: a turn to which the run delivered one or more terminal chain-end
\* events (chain-end events carrying the message list with a finished
\* assistant message) has, when it ends, exactly one FINAL_ANSWER react_step
\* in its stream.
C1_ExactlyOneFinalAnswer ==
    \A t \in Turns :
        (pc[t] = "done" /\ eng[t].terminal >= 1)
            => Cardinality(StepsOfPhase(t, "FINAL_ANSWER")) = 1

\* C2: while a turn is between its state reset and the end of its event loop,
\* no step of a turn with a different (user_id, thread_id) key changes the
\* step counter or the final-answer-emitted flag that turn works with.
C2_NoSharedTurnState ==
    [][\A t, u \in Turns :
          (t # u /\ TurnKey(t) # TurnKey(u) /\ pc[t] = "loop" /\ Acted(u))
              => /\ current_step' = current_step
                 /\ final_answer_emitted' = final_answer_emitted]_vars

\* C3: in the stream of a turn the step of the react_step and reasoning_token
\* events never decreases from one event to the next, and the first of them
\* has step 1.
C3_StepMonotonic ==
    \A t \in Turns :
        LET se == StepEvents(t) IN
        /\ se # <<>> => se[1].step = 1
        /\ \A i \in 1..(Len(se) - 1) : se[i].step <= se[i + 1].step

\* C4: a stream that has ended (normally or after an exception) ends with
\* stream_complete immediately followed by completion; nothing is ever
\* emitted after a completion event and nothing but completion after
\* stream_complete.
C4_StreamCompleteThenCompletion ==
    \A t \in Turns :
        /\ pc[t] \in {"completion", "done"} =>
              /\ Len(out[t]) >= 2
              /\ out[t][Len(out[t])].type = "completion"
              /\ out[t][Len(out[t]) - 1].type = "stream_complete"
        /\ \A i \in EventsOfType(t, "completion") : i = Len(out[t])
        /\ \A i \in EventsOfType(t, "stream_complete") :
              \/ i = Len(out[t]) /\ pc[t] = "complete"
              \/ i = Len(out[t]) - 1 /\ out[t][i + 1].type = "completion"

\* C4 witness: a turn whose loop ended normally after a final answer has
\* returned from the generator.
C4_Witness ==
    /\ pc[1] = "done"
    /\ ~eng[1].raised
    /\ StepsOfPhase(1, "FINAL_ANSWER") # {}

\* C5: when the run of a turn raised, the stream holds exactly one error
\* event, and once the generator has moved past it a stream_complete event
\* follows the error event.
C5_ErrorThenStreamComplete ==
    \A t \in Turns :
        eng[t].raised =>
            /\ Cardinality(EventsOfType(t, "error")) = 1
            /\ pc[t] # "error" =>
                  \E i \in EventsOfType(t, "error") :
                      \E j \in EventsOfType(t, "stream_complete") : i < j

\* C5 witness: the run raised while tool calls were executing, and the turn
\* has ended.
C5_Witness ==
    /\ pc[1] = "done"
    /\ eng[1].raised
    /\ eng[1].phase = "tools"
    /\ eng[1].pending > 0

\* C6: a tool call made in the turn of authenticated user A with a user_id
\* argument different from A returns an error envelope and never the data
\* of the user named by the argument.
C6_OtherUserRefused ==
    (lastCall.tool \in ToolNames /\ lastCall.user_id # lastCall.auth) =>
        /\ lastCall.result.kind # "raised" => lastCall.result.kind = "error"
        /\ lastCall.result.kind # "data"

\* C7: two memory entries written under the same key were written by the
\* same user on the same thread, and a history lookup of one user resolves
\* only entries written under that user's identity.
C7_KeySeparatesUsers ==
    /\ \A m1, m2 \in memory :
          m1.key = m2.key => (m1.owner = m2.owner /\ m1.thread_id = m2.thread_id)
    /\ resolved.owners \subseteq {resolved.by}

\* C8: two turns with the same (user_id, thread_id) key are never both
\* between their stream_start and their stream_complete.
C8_SameKeySerialized ==
    \A t, u \in Turns :
        (t # u /\ TurnKey(t) = TurnKey(u)) => ~(InFlight(t) /\ InFlight(u))

\* the fixed placeholder blacklist of the tool contract
PlaceholderBlacklist ==
    {s_user_id, s_your_user_id, s_none, s_null, s_empty, s_placeholder,
     s_example, s_test_user, s_userid, s_authenticated_user}

SameLetter(a, b) ==
    \/ a = b
    \/ \E i \in 1..Len(UpperLetters) : {a, b} = {UpperLetters[i], LowerLetters[i]}

EqualIgnoringCase(x, y) ==
    /\ Len(x) = Len(y)
    /\ \A i \in 1..Len(x) : SameLetter(x[i], y[i])

IsPlaceholder(user_id) ==
    \/ user_id = s_empty
    \/ \E p \in PlaceholderBlacklist : EqualIgnoringCase(user_id, p)

\* C9: a call of any of the three tools whose user_id is empty or equals,
\* ignoring case, an entry of the placeholder blacklist returns the
\* invalid-user-id error envelope with message and suggestion, and performs
\* no data-store operation.
C9_PlaceholderRejectedBeforeStore ==
    (lastCall.tool \in ToolNames /\ IsPlaceholder(lastCall.user_id)) =>
        /\ lastCall.result.kind = "error"
        /\ lastCall.result.error = "Invalid user_id parameter"
        /\ lastCall.result.has_message
        /\ lastCall.result.has_suggestion
        /\ lastCall.result.ops = 0
        /\ dbOps = lastCall.dbBefore

\* C9 witness: get_transactions was called with an upper-case placeholder
\* after an earlier call had used the store, and rejected it.
C9_Witness ==
    /\ lastCall.tool = "get_transactions"
    /\ lastCall.user_id = s_USER_ID
    /\ lastCall.result.error = "Invalid user_id parameter"
    /\ dbOps > 0

C11_CapEndsWithFinalAnswer ==
    (pc[1] = "done" /\ eng[1].raised /\ eng[1].supersteps >= RecursionLimit) =>
        /\ StepsOfPhase(1, "FINAL_ANSWER") # {}
        /\ EventsOfType(1, "error") = {}

\* the judge of turn t has been invoked
JudgeInvoked(t) == wf[t].pc \in {"judging", "evaluated"} \/ wf[t].events # <<>>

\* C12: the judge of a turn is invoked, and evaluation_complete emitted, only
\* when the agent's stream has ended and a final answer was collected from
\* it; no event (so no react_step and no reasoning_token) is emitted by the
\* agent's stream after the judge has been invoked.
C12_JudgeAfterStream ==
    \A t \in Turns :
        JudgeInvoked(t) =>
            /\ pc[t] = "done"
            /\ StepsOfPhase(t, "FINAL_ANSWER") # {}
            /\ wf[t].response # 0 /\ wf[t].response = ResponseContent(t)
            /\ \A i \in 1..Len(out[t]) : i > wf[t].at => ~IsStepEvent(out[t][i])
            /\ Len(out[t]) = wf[t].at

\* C12 witness: a turn in which a tool ran before the model answered has
\* been evaluated from its final answer and the evaluation_complete event
\* emitted.
C12_Witness ==
    /\ wf[1].events = <<"evaluation_complete">>
    /\ wf[1].evaluation.overall_score = 4
    /\ eng[1].final /\ ~eng[1].early /\ ~eng[1].raised
    /\ Len(eng[1].executed) = 1
    /\ StepsOfPhase(1, "OBSERVATION") # {}

\* C13: when the judge model call raises, evaluate_response returns a result
\* (it does not propagate the exception) whose overall_score is 3 and whose
\* error field is present and true.
C13_JudgeFailureFallback ==
    (judgeCall.judge = "llm_judge" /\ judgeCall.reply.kind = "raises") =>
        /\ "overall_score" \in DOMAIN judgeCall.result
        /\ judgeCall.result.overall_score = 3
        /\ "error" \in DOMAIN judgeCall.result
        /\ judgeCall.result.error = TRUE

\* a score outside 1..5 comes back as the nearest of 1 and 5
ClampedFrom(given, returned) ==
    /\ given < 1 => returned = 1
    /\ given > 5 => returned = 5

\* C14: every score of an evaluation returned for a model reply lies in
\* 1..5, and a score the model gave below 1 or above 5 comes back as 1 or 5
\* in the same place: it is not dropped and no other value stands for it.
C14_ScoresClamped ==
    /\ (judgeCall.judge = "llm_judge" /\ judgeCall.reply.kind = "reply") =>
          LET given == judgeCall.reply
              res   == judgeCall.result
          IN /\ ScoreInRange(res.overall_score)
             /\ \A i \in 1..Len(res.criteria_scores) : ScoreInRange(res.criteria_scores[i])
             /\ ClampedFrom(given.overall_score, res.overall_score)
             /\ \A i \in 1..Len(given.criteria_scores) :
                   ~ScoreInRange(given.criteria_scores[i]) =>
                       /\ i <= Len(res.criteria_scores)
                       /\ ClampedFrom(given.criteria_scores[i], res.criteria_scores[i])
    /\ (judgeCall.judge = "response_judge" /\ judgeCall.reply.kind = "json") =>
          LET given == judgeCall.reply.scores
              res   == judgeCall.result.scores
          IN /\ \A f \in RequiredFieldSet : res[f] >= 10 /\ res[f] <= 50
             /\ \A f \in DOMAIN given :
                   /\ given[f] < 1 => res[f] = 10
                   /\ given[f] > 5 => res[f] = 50

\* the balance turn has ended, a chain-end event with the finished assistant
\* message was delivered after the model's answer and none before it (the
\* thread holds no earlier answer)
BalanceTurnEnded ==
    /\ pc[1] = "done"
    /\ eng[1].executed = <<"get_account_balance">>
    /\ eng[1].final
    /\ eng[1].terminal >= 1
    /\ ~eng[1].early

C16_JudgeContextComplete ==
    \A t \in Turns :
        JudgeInvoked(t) =>
            /\ Len(wf[t].context) = Len(eng[t].executed)
            /\ \A i \in 1..Len(wf[t].context) :
                  wf[t].context[i].tool_output = ToolReturn(eng[t].executed[i])

\* C17: the tools_used of a turn's completion event is the number of tool
\* executions of that turn, and 0 when the model answered without a tool.
C17_ToolsUsedCount ==
    \A t \in Turns :
        \A i \in EventsOfType(t, "completion") :
            out[t][i].tools_used = Len(eng[t].executed)

\* the call reached the query: user_id names an existing user and the store works
QueryRan ==
    /\ txCall.made
    /\ txCall.user_id \in DbUsers
    /\ txCall.mode = "ok"

\* C18: get_transactions answers a limit outside 1..100 (0 and 101 among
\* them) with an error and returns no transactions for it, and answers the
\* limits 1 and 100 with a result that is not an error.
C18_LimitRangeRejected ==
    QueryRan =>
        /\ (txCall.limit < 1 \/ txCall.limit > 100) =>
              /\ "error" \in DOMAIN txCall.result
              /\ "transactions" \notin DOMAIN txCall.result
        /\ txCall.limit \in {1, 100} => "error" \notin DOMAIN txCall.result

\* the stored number is shown at most by its last 4 characters behind the mask
ShowsAtMostLastFour(stored, returned) ==
    \E k \in 0..4 : returned = MaskPrefix \o LastChars(stored, k)

\* C19: the card_number returned for a stored card number of any length is
\* the mask followed by at most the last 4 characters of the stored number,
\* and is never the stored number itself.
C19_CardNumberMasked ==
    cardCall.made =>
        /\ ShowsAtMostLastFour(cardCall.stored, cardCall.returned)
        /\ cardCall.returned # cardCall.stored

\* C20: every result of get_transactions for an existing user that is not an
\* error holds transactions, total_count and limit; limit is the requested
\* limit, no more than limit transactions are returned, and total_count is
\* the number of matching transactions before the limit is applied.
C20_TransactionsResultShape ==
    (QueryRan /\ "error" \notin DOMAIN txCall.result) =>
        /\ {"transactions", "total_count", "limit"} \subseteq DOMAIN txCall.result
        /\ txCall.result.limit = txCall.limit
        /\ Len(txCall.result.transactions) <= txCall.result.limit
        /\ txCall.result.total_count =
              (IF txCall.store.accounts THEN Len(txCall.store.matching) ELSE 0)

\* C21: a call of any of the three tools returns (it does not end with an
\* exception), and a call with an invalid user_id, with the id of no user, or
\* during which the store fails (at the query or when the session is opened)
\* returns an error envelope.
C21_ToolsNeverRaise ==
    lastCall.tool \in ToolNames =>
        /\ lastCall.result.kind \in {"error", "data"}
        /\ (\/ IsInvalidUserId(lastCall.user_id)
            \/ lastCall.user_id \notin DbUsers
            \/ lastCall.mode # "ok") => lastCall.result.kind = "error"
\* C22: the message handed to the reasoning loop is the tag
\* [AUTHENTICATED_USER_ID: <user_id>], a space and the unmodified raw text,
\* and the identity read back from the tag is the authenticated user_id (and
\* the text read after it the raw message), whatever characters they hold.
C22_TagUnambiguous ==
    tagCall.made =>
        /\ tagCall.content =
              s_tag_open \o tagCall.user_id \o <<"]", " ">> \o tagCall.message
        /\ ExtractUserId(tagCall.content) = tagCall.user_id
        /\ ExtractMessage(tagCall.content) = tagCall.message
\* the calls that asked for the agent of a user
UserAgentCalls == {i \in 1..Len(agentCalls) : agentCalls[i].op = "_get_user_agent"}

\* C23: the agent has a user_agents cache, every _get_user_agent(u) returns
\* an agent, a repeated call for the same user returns the same agent and
\* calls for two different users return two different agents.
C23_PerUserAgentCache ==
    /\ agent_instance # 0 => HasAttr("user_agents")
    /\ \A i \in UserAgentCalls : agentCalls[i].kind = "agent"
    /\ \A i, j \in UserAgentCalls :
          (agentCalls[i].user_id = agentCalls[j].user_id)
              <=> (agentCalls[i].agent = agentCalls[j].agent)
\* the step of the model delivered a raw event to turn t
Delivered(t) == eng'[t].n = eng[t].n + 1

\* the event the step yielded into the stream of turn t, None when it yielded none
Yielded(t) == IF Len(out'[t]) > Len(out[t]) THEN out'[t][Len(out'[t])] ELSE None

\* C24: a delivered raw event moves the step counter by exactly one when it
\* is a model-start or a tool-start event or when FINAL_ANSWER is emitted for
\* it, and leaves it unchanged when it is a model-token, model-end or
\* tool-end event or a chain-end event that emits nothing; a model-token
\* event with empty content emits nothing.
C24_StepCounterFrame ==
    [][\A t \in Turns :
          Delivered(t) =>
              LET last == eng'[t].last IN
              /\ last.event \in {"on_chat_model_start", "on_tool_start"}
                    => current_step' = current_step + 1
              /\ (Yielded(t).type = "react_step" /\ Yielded(t).phase = "FINAL_ANSWER")
                    => current_step' = current_step + 1
              /\ last.event \in {"on_chat_model_stream", "on_chat_model_end", "on_tool_end"}
                    => current_step' = current_step
              /\ (last.event = "on_chain_end" /\ Yielded(t).type = "none")
                    => current_step' = current_step
              /\ (last.event = "on_chat_model_stream" /\ last.content = 0)
                    => Yielded(t).type = "none"]_vars

\* C24 witness: a turn has ended in which the counter went 1 (model start),
\* 2 (tool start), 3 (model start), 4 (final answer), with a tool-end event
\* and model-end events in between.
C24_Witness ==
    /\ pc[1] = "done"
    /\ Len(eng[1].executed) = 1
    /\ eng[1].cycles = 2
    /\ \E i \in StepsOfPhase(1, "FINAL_ANSWER") : out[1][i].step = 4
    /\ \E i \in StepsOfPhase(1, "OBSERVATION") : out[1][i].step = 2
\* C25: once the terminal chain-end event of a turn (the one delivered after
\* the model's last response, whose message list ends with the assistant's
\* answer) has been delivered, the stream holds a FINAL_ANSWER and the
\* final_answer of every FINAL_ANSWER of the stream is the content of the
\* last qualifying assistant message of that event's list, whatever message
\* lists earlier chain-end events of the turn carried.
C25_FinalAnswerFromTerminalEvent ==
    eng[1].terminal_answer # 0 =>
        /\ StepsOfPhase(1, "FINAL_ANSWER") # {}
        /\ \A i \in StepsOfPhase(1, "FINAL_ANSWER") :
              out[1][i].final_answer = eng[1].terminal_answer
IsExecutionStart(e) ==
    /\ e.type = "react_step" /\ e.phase = "ACTION"
    /\ e.content # <<>> /\ e.content[1] = "Executing "

\* C28: the OBSERVATION steps of a turn can be paired one to one with
\* earlier execution-start ACTION steps of the same step number: up to every
\* OBSERVATION, the stream holds no more OBSERVATIONs of its step number
\* than execution-start ACTIONs of that step number.
C28_ObservationMatchesAction ==
    LET o == out[1] IN
    \A i \in StepsOfPhase(1, "OBSERVATION") :
        Cardinality({j \in StepsOfPhase(1, "OBSERVATION") :
                        j <= i /\ o[j].step = o[i].step})
          <= Cardinality({a \in 1..(i - 1) :
                             IsExecutionStart(o[a]) /\ o[a].step = o[i].step})
\* the workflow's stream of turn t has ended
WorkflowEnded(t) == wf[t].pc = "end"

\* the evaluation_complete events of the workflow's stream
EvaluationEvents(t) ==
    {i \in 1..Len(wf[t].events) : wf[t].events[i] = "evaluation_complete"}

\* the turn emitted a FINAL_ANSWER whose final_answer is not empty
EmittedFinalAnswer(t) ==
    \E i \in StepsOfPhase(t, "FINAL_ANSWER") : out[t][i].final_answer # 0

\* C29: the workflow's stream never holds more than one evaluation_complete
\* event and holds none unless the turn emitted a FINAL_ANSWER with a
\* non-empty final_answer; when the stream has ended it holds one exactly
\* if the turn emitted such a FINAL_ANSWER, and the judge was not invoked
\* for a turn that ended with an error and without a final answer.
C29_EvaluationIffFinalAnswer ==
    \A t \in Turns :
        /\ Cardinality(EvaluationEvents(t)) <= 1
        /\ EvaluationEvents(t) # {} => EmittedFinalAnswer(t)
        /\ JudgeInvoked(t) => EmittedFinalAnswer(t)
        /\ WorkflowEnded(t) => (EvaluationEvents(t) # {} <=> EmittedFinalAnswer(t))
        /\ (WorkflowEnded(t) /\ EventsOfType(t, "error") # {} /\ ~EmittedFinalAnswer(t))
              => ~JudgeInvoked(t)

\* C29 witness: a turn whose run raised before any final answer has gone
\* through the workflow to its end without an evaluation.
C29_Witness ==
    /\ WorkflowEnded(1)
    /\ eng[1].raised
    /\ eng[1].cycles >= 1
    /\ ~EmittedFinalAnswer(1)
    /\ wf[1].events = <<>>
\* C30: the chat service writes at most one ChatHistory row for a turn, and
\* none before the workflow's stream has ended; when the turn emitted a
\* FINAL_ANSWER, the bot_response of the row is that event's final_answer
\* and nothing else, wherever the reasoning tokens and the other steps stand
\* in the stream.
C30_HistoryHoldsFinalAnswer ==
    \A t \in Turns :
        /\ Len(svc[t].rows) <= 1
        /\ svc[t].rows # <<>> => WorkflowEnded(t)
        /\ \A r \in 1..Len(svc[t].rows) :
              \A i \in StepsOfPhase(t, "FINAL_ANSWER") :
                  svc[t].rows[r].bot_response = <<AnswerPiece(out[t][i].final_answer)>>

====
